---- MODULE Spec2Model ----
(***************************************************************************)
(* TopologicalTaskRunner (src/rag_kit/topological_task_runner.py): the    *)
(* runner's result store, its run loop over graphlib's TopologicalSorter,  *)
(* the concurrent settling of one wave's tasks, format_results and reset.  *)
(*                                                                         *)
(* run is modelled as called while the event loop is not running (line     *)
(* 262, run_until_complete): the caller is blocked until arun returns or   *)
(* raises, so run and reset are called only between runs.  Between two     *)
(* suspension points arun runs without interruption, so one action spans   *)
(* the code from one await to the next.                                    *)
(***************************************************************************)
EXTENDS Integers, Sequences, FiniteSets, TLC

\* Bounds of the exploration.
MaxRuns == 2
MaxTasks == 2

(***************************************************************************)
(* Python dicts keep insertion order; a dict is a sequence of [k, v]       *)
(* entries with distinct keys.                                             *)
(***************************************************************************)
DictKeys(d) == {d[i].k : i \in DOMAIN d}

DictHas(d, key) == \E i \in DOMAIN d : d[i].k = key

DictGet(d, key) == d[CHOOSE i \in DOMAIN d : d[i].k = key].v

\* d[key] = val: an existing key keeps its position, a new key goes last.
DictSet(d, key, val) ==
    IF DictHas(d, key)
    THEN [i \in DOMAIN d |-> IF d[i].k = key THEN [k |-> key, v |-> val] ELSE d[i]]
    ELSE Append(d, [k |-> key, v |-> val])

\* d.pop(key, None)
DictPop(d, key) == SelectSeq(d, LAMBDA e : e.k # key)

RECURSIVE DictUpdate(_, _)
\* {**a, **b}
DictUpdate(a, b) ==
    IF b = <<>> THEN a ELSE DictUpdate(DictSet(a, Head(b).k, Head(b).v), Tail(b))

SeqRange(s) == {s[i] : i \in DOMAIN s}

(***************************************************************************)
(* Work functions.  A function is known by its __name__; what the model    *)
(* needs of it is whether it is a coroutine function and what calling it   *)
(* can produce.                                                            *)
(***************************************************************************)
Funcs == {"one", "two", "succ", "boom", "flaky"}

\* asyncio.iscoroutinefunction(func)
IsCoroutineFunction(func) == func \in {"two", "flaky"}

\* What a call returns or raises: [exc, val, err].
Value(v) == [exc |-> FALSE, val |-> v, err |-> ""]

Raised(e) == [exc |-> TRUE, val |-> 0, err |-> e]

RECURSIVE SumValues(_)
SumValues(kwargs) ==
    IF kwargs = <<>> THEN 0 ELSE Head(kwargs).v + SumValues(Tail(kwargs))

\* The outcomes of func(*args, **kwargs).
Outcomes(func, kwargs) ==
    CASE func = "one" -> {Value(1)}
      [] func = "two" -> {Value(2)}
      [] func = "succ" -> {Value(SumValues(kwargs) + 1)}
      [] func = "boom" -> {Raised("TaskError")}
      [] OTHER -> {Value(1), Value(2), Raised("TaskError")}

\* A function whose outcome is fixed by its arguments.
Deterministic(func) == func # "flaky"

(***************************************************************************)
(* TPTask.  name = "" stands for None; res_key is the string as a sequence *)
(* of characters, <<>> standing for None and for "".                       *)
(***************************************************************************)
TPTask(name, func, deps, kwargs, res_key) ==
    [name |-> name, func |-> func, deps |-> deps, args |-> <<>>,
     kwargs |-> kwargs, res_key |-> res_key]

NoKey == <<>>

KeyXY == <<"x", ".", "y">>

KeyXZ == <<"x", ".", "z">>

KeyX == <<"x">>

\* The task specifications a caller submits.
TaskPool ==
    { TPTask("t1", "one", <<>>, <<>>, KeyXY),
      TPTask("t1", "boom", <<>>, <<>>, KeyXY),
      TPTask("t2", "succ", <<"t1">>, <<>>, KeyXZ),
      TPTask("t2", "flaky", <<>>, <<>>, KeyXY),
      TPTask("t3", "succ", <<"t1">>,
                  <<[k |-> "t1", v |-> 7], [k |-> "w", v |-> 3]>>, NoKey),
      TPTask("t3", "two", <<"t2">>, <<>>, KeyX),
      TPTask("t1", "flaky", <<"t2">>, <<>>, NoKey),
      TPTask("", "two", <<>>, <<>>, KeyXZ) }

RECURSIVE SeqsUpTo(_, _)
\* The sequences over S of length at most n.
SeqsUpTo(S, n) ==
    IF n = 0 THEN {<<>>}
    ELSE LET shorter == SeqsUpTo(S, n - 1)
         IN  shorter \cup {Append(s, x) : s \in shorter, x \in S}

(***************************************************************************)
(* _map_tasks_functions_and_dependencies.  The three maps it builds have   *)
(* the same keys in the same order, so the model keeps task_map and reads  *)
(* task_func_map[n] as task_map[n].func, task_deps_map[n] as               *)
(* task_map[n].deps.                                                       *)
(***************************************************************************)
\* name = task.name or func.__name__
TaskName(task) == IF task.name = "" THEN task.func ELSE task.name

RECURSIVE MapTasks(_, _)
\* [raised, task_map]: ValueError at the first name already in task_map.
MapTasks(tasks, task_map) ==
    IF tasks = <<>> THEN [raised |-> "", task_map |-> task_map]
    ELSE IF DictHas(task_map, TaskName(Head(tasks)))
         THEN [raised |-> "ValueError", task_map |-> task_map]
         ELSE MapTasks(Tail(tasks),
                       DictSet(task_map, TaskName(Head(tasks)), Head(tasks)))

MapTasksFunctionsAndDependencies(tasks_to_run) == MapTasks(tasks_to_run, <<>>)

(***************************************************************************)
(* graphlib.TopologicalSorter as arun uses it: the constructor adds, for   *)
(* every (name, deps) item, the node and then its predecessors; prepare    *)
(* raises CycleError on a cycle and makes the nodes without predecessors   *)
(* ready; get_ready hands out the ready nodes; done decrements the         *)
(* successors of the finished nodes.                                       *)
(***************************************************************************)
AddNode(nodes, n) == IF n \in SeqRange(nodes) THEN nodes ELSE Append(nodes, n)

RECURSIVE AddNodes(_, _)
AddNodes(nodes, ns) ==
    IF ns = <<>> THEN nodes ELSE AddNodes(AddNode(nodes, Head(ns)), Tail(ns))

RECURSIVE NodeOrder(_, _)
\* The nodes in the order the sorter first sees them.
NodeOrder(task_map, nodes) ==
    IF task_map = <<>> THEN nodes
    ELSE NodeOrder(Tail(task_map),
                   AddNodes(AddNode(nodes, Head(task_map).k), Head(task_map).v.deps))

DepsOf(task_map, n) == IF DictHas(task_map, n) THEN DictGet(task_map, n).deps ELSE <<>>

\* How many times dep is listed among the dependencies of n.
Count(s, x) == Cardinality({i \in DOMAIN s : s[i] = x})

RECURSIVE Reach(_, _)
\* The nodes reachable from the set S along dependency edges.
Reach(task_map, S) ==
    LET next == S \cup UNION {SeqRange(DepsOf(task_map, n)) : n \in S}
    IN  IF next = S THEN S ELSE Reach(task_map, next)

\* As HasCycle, with prepare() looking for no cycle at all.
HasCycleUnchecked(task_map) == FALSE

\* prepare(): a node that depends, directly or not, on itself.
HasCycle(task_map) ==
    \E n \in DictKeys(task_map) :
        n \in Reach(task_map, SeqRange(DepsOf(task_map, n)))

\* The sorter after prepare(): npred counts the listed predecessors.
Prepare(task_map) ==
    LET nodes == NodeOrder(task_map, <<>>)
        npred == [n \in SeqRange(nodes) |-> Len(DepsOf(task_map, n))]
    IN  [nodes |-> nodes, npred |-> npred,
         ready |-> SelectSeq(nodes, LAMBDA n : npred[n] = 0)]

RECURSIVE SuccessorsOf(_, _)
\* The successors of n, one entry per listing, in the order they were added.
SuccessorsOf(task_map, n) ==
    IF task_map = <<>> THEN <<>>
    ELSE LET e == Head(task_map)
         IN  [i \in 1..Count(e.v.deps, n) |-> e.k] \o SuccessorsOf(Tail(task_map), n)

RECURSIVE DoneSuccessors(_, _)
DoneSuccessors(t, succs) ==
    IF succs = <<>> THEN t
    ELSE LET s == Head(succs)
             left == t.npred[s] - 1
         IN  DoneSuccessors([t EXCEPT !.npred[s] = left,
                                      !.ready = IF left = 0 THEN Append(@, s) ELSE @],
                            Tail(succs))

RECURSIVE Done(_, _, _)
\* ts.done(*names)
Done(t, task_map, names) ==
    IF names = <<>> THEN t
    ELSE Done(DoneSuccessors(t, SuccessorsOf(task_map, Head(names))), task_map, Tail(names))

(***************************************************************************)
(* _calculate_ready_tasks: in the order of ready_names, look the function  *)
(* up (KeyError for a node that is no submitted task), read every          *)
(* dependency's result from task_results (KeyError when it has none),      *)
(* merge the task's kwargs over them and launch the call.                  *)
(***************************************************************************)
RECURSIVE DepResults(_, _)
\* {dep: self.task_results[dep] for dep in task_deps}
DepResults(deps, results) ==
    IF deps = <<>> THEN <<>>
    ELSE DictUpdate(<<[k |-> Head(deps), v |-> DictGet(results, Head(deps))]>>,
                    DepResults(Tail(deps), results))

\* Whether the lookups for name succeed.
CanLaunch(name, task_map, results) ==
    /\ DictHas(task_map, name)
    /\ \A d \in SeqRange(DictGet(task_map, name).deps) : DictHas(results, d)

\* As Launch, passing every result of the store and not only those of the
\* task's dependencies.
LaunchWithAllResults(name, task_map, results) ==
    LET task == DictGet(task_map, name)
    IN  [name |-> name, func |-> task.func, args |-> task.args,
         kwargs |-> DictUpdate(results, task.kwargs),
         deps |-> task.deps]

\* As Launch, with the dependency results laid over the task's own named
\* arguments ({**kwargs, **dep_results}).
LaunchDependenciesWin(name, task_map, results) ==
    LET task == DictGet(task_map, name)
    IN  [name |-> name, func |-> task.func, args |-> task.args,
         kwargs |-> DictUpdate(task.kwargs, DepResults(task.deps, results)),
         deps |-> task.deps]

\* The launched call: what _execute_task is given, and the dependencies the
\* task lists.
Launch(name, task_map, results) ==
    LET task == DictGet(task_map, name)
    IN  [name |-> name, func |-> task.func, args |-> task.args,
         kwargs |-> DictUpdate(DepResults(task.deps, results), task.kwargs),
         deps |-> task.deps]

RECURSIVE CalculateReadyTasksUnchecked(_, _, _)
\* As CalculateReadyTasks, reading the dependencies with .get: a dependency
\* without a result is passed over instead of raising KeyError.
CalculateReadyTasksUnchecked(ready_names, task_map, results) ==
    IF ready_names = <<>> THEN [raised |-> "", launched |-> <<>>]
    ELSE IF ~DictHas(task_map, Head(ready_names))
         THEN [raised |-> "KeyError", launched |-> <<>>]
         ELSE LET rest == CalculateReadyTasksUnchecked(Tail(ready_names), task_map, results)
                  task == DictGet(task_map, Head(ready_names))
                  have == SelectSeq(task.deps, LAMBDA d : DictHas(results, d))
              IN  [raised |-> rest.raised,
                   launched |-> <<[name |-> Head(ready_names), func |-> task.func,
                                   args |-> task.args,
                                   kwargs |-> DictUpdate(DepResults(have, results),
                                                         task.kwargs),
                                   deps |-> task.deps]>> \o rest.launched]

RECURSIVE CalculateReadyTasks(_, _, _)
\* [raised, launched]: the calls launched before the first KeyError, if any.
CalculateReadyTasks(ready_names, task_map, results) ==
    IF ready_names = <<>> THEN [raised |-> "", launched |-> <<>>]
    ELSE IF ~CanLaunch(Head(ready_names), task_map, results)
         THEN [raised |-> "KeyError", launched |-> <<>>]
         ELSE LET rest == CalculateReadyTasks(Tail(ready_names), task_map, results)
              IN  [raised |-> rest.raised,
                   launched |-> <<Launch(Head(ready_names), task_map, results)>>
                                    \o rest.launched]

(***************************************************************************)
(* _set_results: zip(ready_names, ready_task_results), in order.           *)
(***************************************************************************)
\* As SetResult, keeping the specification _failed_tasks already holds for the
\* name (setdefault).
SetResultKeepsFirstSpec(store, name, result, task_map) ==
    IF result.exc
    THEN [store EXCEPT !.failed = IF DictHas(@, name) THEN @
                                  ELSE DictSet(@, name, DictGet(task_map, name)),
                       !.errors = DictSet(@, name, result.err)]
    ELSE [store EXCEPT !.results = DictSet(@, name, result.val),
                       !.failed = DictPop(@, name),
                       !.errors = DictPop(@, name)]

\* One iteration of the loop on the store [results, errors, failed].
SetResult(store, name, result, task_map) ==
    IF result.exc
    THEN [store EXCEPT !.failed = DictSet(@, name, DictGet(task_map, name)),
                       !.errors = DictSet(@, name, result.err)]
    ELSE [store EXCEPT !.results = DictSet(@, name, result.val),
                       !.failed = DictPop(@, name),
                       !.errors = DictPop(@, name)]

RECURSIVE SetResultsUntilFailure(_, _, _, _)
\* As SetResults, leaving the loop at the first failure of the wave.
SetResultsUntilFailure(store, ready_names, ready_task_results, task_map) ==
    IF ready_names = <<>> \/ ready_task_results = <<>> THEN store
    ELSE IF Head(ready_task_results).exc
         THEN SetResult(store, Head(ready_names), Head(ready_task_results), task_map)
         ELSE SetResultsUntilFailure(
                  SetResult(store, Head(ready_names), Head(ready_task_results), task_map),
                  Tail(ready_names), Tail(ready_task_results), task_map)

RECURSIVE SetResults(_, _, _, _)
SetResults(store, ready_names, ready_task_results, task_map) ==
    IF ready_names = <<>> \/ ready_task_results = <<>> THEN store
    ELSE SetResults(SetResult(store, Head(ready_names), Head(ready_task_results), task_map),
                    Tail(ready_names), Tail(ready_task_results), task_map)

(***************************************************************************)
(* format_results.  The nested dict it builds has integer leaves and       *)
(* non-empty containers, so it is kept as the set of its leaves,           *)
(* [path, val], no path a prefix of another.                               *)
(***************************************************************************)
RECURSIVE Split(_)
\* s.split(".")
Split(s) ==
    IF \A i \in DOMAIN s : s[i] # "." THEN <<s>>
    ELSE LET i == CHOOSE i \in DOMAIN s : s[i] = "." /\ \A j \in 1..(i - 1) : s[j] # "."
         IN  <<SubSeq(s, 1, i - 1)>> \o Split(SubSeq(s, i + 1, Len(s)))

IsPrefix(p, q) == Len(p) <= Len(q) /\ SubSeq(q, 1, Len(p)) = p

\* The walk along result_keys[:-1] and the assignment of the last key:
\* setdefault on a leaf returns the integer, and the next step on it raises.
SetPath(tree, result_keys, result) ==
    IF \E e \in tree : IsPrefix(e.path, result_keys) /\ e.path # result_keys
    THEN [raised |-> "TypeError", tree |-> tree]
    ELSE [raised |-> "",
          tree |-> {e \in tree : ~IsPrefix(result_keys, e.path)}
                       \cup {[path |-> result_keys, val |-> result]}]

RECURSIVE FormatFrom(_, _, _)
FormatFrom(results, task_map, tree) ==
    IF results = <<>> THEN [raised |-> "", tree |-> tree]
    ELSE LET name == Head(results).k IN
         IF ~DictHas(task_map, name) THEN [raised |-> "KeyError", tree |-> tree]
         ELSE LET result_key == DictGet(task_map, name).res_key IN
              IF result_key = <<>> THEN FormatFrom(Tail(results), task_map, tree)
              ELSE LET r == SetPath(tree, Split(result_key), Head(results).v) IN
                   IF r.raised # "" THEN r
                   ELSE FormatFrom(Tail(results), task_map, r.tree)

format_results(results, task_map) == FormatFrom(results, task_map, {})

(***************************************************************************)
(* The runner.                                                             *)
(***************************************************************************)
VARIABLES
    task_results,       \* self.task_results: name -> value
    task_errors,        \* self.task_errors: name -> exception
    _failed_tasks,      \* self._failed_tasks: name -> TPTask
    executor_shutdown,  \* whether self.executor has been shut down
    pc,                 \* "idle", or "gather" while arun awaits asyncio.gather
    task_map,           \* arun's task_map
    ts,                 \* arun's TopologicalSorter
    ready_names,        \* arun's ready_names
    ready_tasks,        \* arun's ready_tasks: [call, done, result] per future
    orphans,            \* calls handed to the executor by a run that raised,
                        \* not yet started by a worker thread
    \* What an observer of the runner has seen; nothing above reads these.
    run_count,          \* the run calls so far
    tasks_to_run,       \* the argument of the latest run call
    is_retry,           \* whether that argument was the list failed_tasks gave
    outcome,            \* how the latest run call ended
    invoked,            \* the work invocations since the latest run call began
    recorded,           \* the waves _set_results has recorded in the latest run:
                        \* per wave, its [name, result] pairs in order
    prev,               \* the latest run call but one: its argument, its outcome
                        \* and the store it left
    last_submitted,     \* name -> the TPTask last passed to run under that name
    settled_spec,       \* name -> the TPTask under which its latest outcome was recorded
    rec_order           \* the names with a result, by their latest recording

runner == <<task_results, task_errors, _failed_tasks, executor_shutdown>>

loop == <<pc, task_map, ts, ready_names, ready_tasks>>

vars == <<task_results, task_errors, _failed_tasks, executor_shutdown, pc, task_map,
          ts, ready_names, ready_tasks, orphans, run_count, tasks_to_run, is_retry,
          outcome, invoked, recorded, prev, last_submitted, settled_spec, rec_order>>

NoSorter == [nodes |-> <<>>, npred |-> <<>>, ready |-> <<>>]

NoOutcome == [kind |-> "none", exc |-> "", tree |-> {}]

Returned(tree) == [kind |-> "returned", exc |-> "", tree |-> tree]

RaisedBy(exc) == [kind |-> "raised", exc |-> exc, tree |-> {}]

NoPrev == [tasks |-> <<>>, outcome |-> NoOutcome, results |-> <<>>, errors |-> <<>>]

Store == [results |-> task_results, errors |-> task_errors, failed |-> _failed_tasks]

\* __init__
Init ==
    /\ task_results = <<>>
    /\ task_errors = <<>>
    /\ _failed_tasks = <<>>
    /\ executor_shutdown = FALSE
    /\ pc = "idle"
    /\ task_map = <<>>
    /\ ts = NoSorter
    /\ ready_names = <<>>
    /\ ready_tasks = <<>>
    /\ orphans = {}
    /\ run_count = 0
    /\ tasks_to_run = <<>>
    /\ is_retry = FALSE
    /\ outcome = NoOutcome
    /\ invoked = <<>>
    /\ recorded = <<>>
    /\ prev = NoPrev
    /\ last_submitted = <<>>
    /\ settled_spec = <<>>
    /\ rec_order = <<>>

\* failed_tasks: list(self._failed_tasks.values())
failed_tasks == [i \in DOMAIN _failed_tasks |-> _failed_tasks[i].v]

(***************************************************************************)
(* _execute_task: a coroutine function is awaited on the loop; any other   *)
(* function goes to the executor through asyncio.to_thread, which raises   *)
(* RuntimeError once the executor is shut down.                            *)
(***************************************************************************)
ExecuteTask(call, shutdown) ==
    IF IsCoroutineFunction(call.func) \/ ~shutdown
    THEN Outcomes(call.func, call.kwargs)
    ELSE {Raised("RuntimeError")}

\* Whether the work function of a launched call ever gets called.
Called(call, shutdown) == IsCoroutineFunction(call.func) \/ ~shutdown

\* One entry of invoked: the call and the names that had a result just then.
Invocation(call, results, orphan) ==
    [name |-> call.name, func |-> call.func, args |-> call.args,
     kwargs |-> call.kwargs, deps |-> call.deps, have |-> DictKeys(results),
     orphan |-> orphan]

InvocationsOf(calls, results) ==
    [i \in DOMAIN calls |-> Invocation(calls[i], results, FALSE)]

(***************************************************************************)
(* arun's loop from its test `while ts.is_active()` up to the next await   *)
(* of asyncio.gather, or to the end of arun.  t is the sorter, store the   *)
(* result store and log the invocations so far.  The launched calls take   *)
(* their first step on the loop's next turn, whether arun then awaits      *)
(* gather or has raised: a coroutine function is called there, another     *)
(* function is handed to the executor, whose worker calls it at once when  *)
(* arun waits for it, and at some later time when arun has raised.         *)
(***************************************************************************)
RunLoop(t, tm, store, log) ==
    IF t.ready = <<>>
    THEN \* the sorter is exhausted: return self.format_results(task_map)
         LET f == format_results(store.results, tm)
         IN  /\ pc' = "idle"
             /\ outcome' = IF f.raised = "" THEN Returned(f.tree) ELSE RaisedBy(f.raised)
             /\ task_map' = <<>>
             /\ ts' = NoSorter
             /\ ready_names' = <<>>
             /\ ready_tasks' = <<>>
             /\ orphans' = orphans
             /\ invoked' = log
    ELSE \* ready_names = ts.get_ready(); _calculate_ready_tasks(...)
         LET c == CalculateReadyTasks(t.ready, tm, store.results)
         IN  IF c.raised = ""
             THEN /\ pc' = "gather"
                  /\ outcome' = NoOutcome
                  /\ task_map' = tm
                  /\ ts' = [t EXCEPT !.ready = <<>>]
                  /\ ready_names' = t.ready
                  /\ ready_tasks' = [i \in DOMAIN c.launched |->
                                        [call |-> c.launched[i], done |-> FALSE,
                                         result |-> Value(0)]]
                  /\ orphans' = orphans
                  /\ invoked' = log \o InvocationsOf(
                         SelectSeq(c.launched,
                                   LAMBDA call : Called(call, executor_shutdown)),
                         store.results)
             ELSE \* the KeyError leaves arun: the calls launched so far are
                  \* never awaited
                  /\ pc' = "idle"
                  /\ outcome' = RaisedBy(c.raised)
                  /\ task_map' = <<>>
                  /\ ts' = NoSorter
                  /\ ready_names' = <<>>
                  /\ ready_tasks' = <<>>
                  /\ orphans' = orphans \cup
                         {c.launched[i] : i \in {j \in DOMAIN c.launched :
                              /\ ~IsCoroutineFunction(c.launched[j].func)
                              /\ ~executor_shutdown}}
                  /\ invoked' = log \o InvocationsOf(
                         SelectSeq(c.launched,
                                   LAMBDA call : IsCoroutineFunction(call.func)),
                         store.results)

RECURSIVE Submit(_, _)
\* last_submitted after the tasks were passed to run.
Submit(tasks, last) ==
    IF tasks = <<>> THEN last
    ELSE Submit(Tail(tasks), DictSet(last, TaskName(Head(tasks)), Head(tasks)))

\* run(tasks_to_run), up to the first await or to its end.
Run(tasks) ==
    /\ pc = "idle"
    /\ run_count < MaxRuns
    /\ run_count' = run_count + 1
    /\ tasks_to_run' = tasks
    /\ is_retry' = (tasks # <<>> /\ tasks = failed_tasks)
    /\ prev' = [tasks |-> tasks_to_run, outcome |-> outcome,
                results |-> task_results, errors |-> task_errors]
    /\ last_submitted' = Submit(tasks, last_submitted)
    /\ recorded' = <<>>
    /\ UNCHANGED <<runner, settled_spec, rec_order>>
    /\ LET m == MapTasksFunctionsAndDependencies(tasks)
       IN  IF m.raised # "" \/ HasCycle(m.task_map)
           THEN \* ValueError of the mapping, CycleError of ts.prepare()
                /\ outcome' = RaisedBy(IF m.raised # "" THEN m.raised ELSE "CycleError")
                /\ invoked' = <<>>
                /\ UNCHANGED <<loop, orphans>>
           ELSE RunLoop(Prepare(m.task_map), m.task_map, Store, <<>>)

\* As Settle, the settling future writing its own outcome to the store at
\* once (a done-callback) instead of leaving it to _set_results.
SettleAndRecord(i) ==
    /\ pc = "gather"
    /\ ~ready_tasks[i].done
    /\ \E result \in ExecuteTask(ready_tasks[i].call, executor_shutdown) :
           /\ ready_tasks' = [ready_tasks EXCEPT ![i] = [@ EXCEPT !.done = TRUE,
                                                                  !.result = result]]
           /\ LET store == SetResult(Store, ready_names[i], result, task_map)
              IN  /\ task_results' = store.results
                  /\ task_errors' = store.errors
                  /\ _failed_tasks' = store.failed
    /\ UNCHANGED <<executor_shutdown, pc, task_map, ts, ready_names, orphans, run_count,
                   tasks_to_run, is_retry, outcome, invoked, recorded, prev,
                   last_submitted, settled_spec, rec_order>>

\* One future of the awaited wave settles.
Settle(i) ==
    /\ pc = "gather"
    /\ ~ready_tasks[i].done
    /\ \E result \in ExecuteTask(ready_tasks[i].call, executor_shutdown) :
           ready_tasks' = [ready_tasks EXCEPT ![i] = [@ EXCEPT !.done = TRUE,
                                                               !.result = result]]
    /\ UNCHANGED <<runner, pc, task_map, ts, ready_names, orphans, run_count,
                   tasks_to_run, is_retry, outcome, invoked, recorded, prev,
                   last_submitted, settled_spec, rec_order>>

RECURSIVE Recordings(_, _)
\* rec_order after the wave: a name that got a result moves to the end.
Recordings(order, wave) ==
    IF wave = <<>> THEN order
    ELSE Recordings(IF Head(wave).result.exc THEN order
                    ELSE Append(SelectSeq(order, LAMBDA n : n # Head(wave).name),
                                Head(wave).name),
                    Tail(wave))

RECURSIVE SettledSpecs(_, _, _)
SettledSpecs(specs, names, tm) ==
    IF names = <<>> THEN specs
    ELSE SettledSpecs(DictSet(specs, Head(names), DictGet(tm, Head(names))),
                      Tail(names), tm)

\* asyncio.gather returns: _set_results, ts.done, and the loop goes on.
GatherDone ==
    /\ pc = "gather"
    /\ \A i \in DOMAIN ready_tasks : ready_tasks[i].done
    /\ LET results == [i \in DOMAIN ready_tasks |-> ready_tasks[i].result]
           wave == [i \in DOMAIN ready_tasks |->
                       [name |-> ready_names[i], result |-> ready_tasks[i].result]]
           store == SetResults(Store, ready_names, results, task_map)
       IN  /\ task_results' = store.results
           /\ task_errors' = store.errors
           /\ _failed_tasks' = store.failed
           /\ recorded' = Append(recorded, wave)
           /\ rec_order' = Recordings(rec_order, wave)
           /\ settled_spec' = SettledSpecs(settled_spec, ready_names, task_map)
           /\ RunLoop(Done(ts, task_map, ready_names), task_map, store, invoked)
    /\ UNCHANGED <<executor_shutdown, run_count, tasks_to_run, is_retry, prev,
                   last_submitted>>

\* A worker thread starts a call left behind by a run that raised.
StartOrphan(call) ==
    /\ call \in orphans
    /\ orphans' = orphans \ {call}
    /\ invoked' = Append(invoked, Invocation(call, task_results, TRUE))
    /\ UNCHANGED <<runner, loop, run_count, tasks_to_run, is_retry, outcome,
                   recorded, prev, last_submitted, settled_spec, rec_order>>

\* reset().  The observer starts afresh with it.
Reset ==
    /\ pc = "idle"
    /\ _failed_tasks' = <<>>
    /\ task_results' = <<>>
    /\ task_errors' = <<>>
    /\ executor_shutdown' = TRUE
    /\ tasks_to_run' = <<>>
    /\ is_retry' = FALSE
    /\ outcome' = NoOutcome
    /\ invoked' = <<>>
    /\ recorded' = <<>>
    /\ prev' = NoPrev
    /\ last_submitted' = <<>>
    /\ settled_spec' = <<>>
    /\ rec_order' = <<>>
    /\ UNCHANGED <<loop, orphans, run_count>>

\* What a caller passes to run: a list of task specifications of the pool, or
\* the list failed_tasks gave it.
Submissions == SeqsUpTo(TaskPool, MaxTasks)

RunAny ==
    \/ \E tasks \in Submissions : Run(tasks)
    \/ Run(failed_tasks)

SettleAny == \E i \in DOMAIN ready_tasks : Settle(i)

StartOrphanAny == \E call \in orphans : StartOrphan(call)

Next == RunAny \/ SettleAny \/ GatherDone \/ StartOrphanAny \/ Reset

Spec == Init /\ [][Next]_vars

\* The runner when its caller only ever calls run.
NextRuns == RunAny \/ SettleAny \/ GatherDone \/ StartOrphanAny

SpecRuns == Init /\ [][NextRuns]_vars

(***************************************************************************)
(* What a submission is, read off the list itself.                         *)
(***************************************************************************)
SubmittedNames(tasks) == {TaskName(tasks[i]) : i \in DOMAIN tasks}

DuplicateNames(tasks) ==
    \E i, j \in DOMAIN tasks : i # j /\ TaskName(tasks[i]) = TaskName(tasks[j])

ListedDeps(tasks, n) ==
    UNION {SeqRange(tasks[i].deps) : i \in {j \in DOMAIN tasks : TaskName(tasks[j]) = n}}

RECURSIVE Upstream(_, _)
\* S and everything the names of S depend on, directly or not.
Upstream(tasks, S) ==
    LET next == S \cup UNION {ListedDeps(tasks, n) : n \in S}
    IN  IF next = S THEN S ELSE Upstream(tasks, next)

DependenciesOf(tasks, n) == Upstream(tasks, ListedDeps(tasks, n))

Cyclic(tasks) == \E n \in SubmittedNames(tasks) : n \in DependenciesOf(tasks, n)

StructurallyValid(tasks) ==
    /\ ~DuplicateNames(tasks)
    /\ ~Cyclic(tasks)
    /\ \A n \in SubmittedNames(tasks) : ListedDeps(tasks, n) \subseteq SubmittedNames(tasks)

\* The latest run call has ended.
RunEnded == pc = "idle" /\ outcome.kind # "none"

FailedInRun ==
    {n \in SubmittedNames(tasks_to_run) :
        \E w \in DOMAIN recorded : \E i \in DOMAIN recorded[w] :
            recorded[w][i].name = n /\ recorded[w][i].result.exc}

RecordedInRun ==
    {n \in SubmittedNames(tasks_to_run) :
        \E w \in DOMAIN recorded : \E i \in DOMAIN recorded[w] : recorded[w][i].name = n}

InvokedInRun == {invoked[i].name : i \in {j \in DOMAIN invoked : ~invoked[j].orphan}}

(***************************************************************************)
(* C1: whenever a task's work is invoked, every dependency the task lists  *)
(* has an entry in task_results at that moment, in every sequence of run   *)
(* calls on one runner (SpecRuns).                                         *)
(***************************************************************************)
C1_DependenciesRecordedAtInvocation ==
    \A i \in DOMAIN invoked : SeqRange(invoked[i].deps) \subseteq invoked[i].have

\* A task with a dependency is invoked in a second run on the same runner.
C1_Witness ==
    /\ run_count = 2
    /\ \E i \in DOMAIN invoked : invoked[i].deps # <<>> /\ invoked[i].kwargs # <<>>

(***************************************************************************)
(* C2: a task with a direct or transitive dependency that failed during a  *)
(* run is not invoked in that run and gets no entry written by that run.   *)
(***************************************************************************)
C2_NothingDownstreamOfAFailure ==
    \A n \in InvokedInRun \cup RecordedInRun :
        DependenciesOf(tasks_to_run, n) \cap FailedInRun = {}

(***************************************************************************)
(* C3: run on a structurally valid submission (unique names, acyclic,      *)
(* every dependency submitted) does not raise, whichever tasks fail.       *)
(***************************************************************************)
C3_ValidSubmissionReturns ==
    (RunEnded /\ StructurallyValid(tasks_to_run)) => outcome.kind = "returned"

(***************************************************************************)
(* C4: run on exactly the list failed_tasks gave completes normally, and a *)
(* resubmitted task that now succeeds has its value in task_results.       *)
(***************************************************************************)
C4_RetryOfFailedTasksReturns ==
    (RunEnded /\ is_retry) =>
        /\ outcome.kind = "returned"
        /\ \A w \in DOMAIN recorded : \A i \in DOMAIN recorded[w] :
               ~recorded[w][i].result.exc =>
                   /\ DictHas(task_results, recorded[w][i].name)
                   /\ DictGet(task_results, recorded[w][i].name) = recorded[w][i].result.val

(***************************************************************************)
(* C5: no task name is in task_results and in task_errors at once.         *)
(***************************************************************************)
C5_ResultsAndErrorsDisjoint == DictKeys(task_results) \cap DictKeys(task_errors) = {}

(***************************************************************************)
(* C6: a run call whose submission has a dependency cycle or two           *)
(* specifications of one name raises ValueError or CycleError (a           *)
(* ValueError in Python) without invoking or launching any task, and       *)
(* leaves task_results, task_errors and failed_tasks as they were.         *)
(***************************************************************************)
C6_StructuralErrorChangesNothing ==
    [][(/\ run_count' = run_count + 1
        /\ DuplicateNames(tasks_to_run') \/ Cyclic(tasks_to_run'))
       => /\ pc' = "idle"
          /\ outcome'.kind = "raised"
          /\ outcome'.exc \in {"ValueError", "CycleError"}
          /\ invoked' = <<>>
          /\ ready_tasks' = <<>>
          /\ orphans' = orphans
          /\ task_results' = task_results
          /\ task_errors' = task_errors
          /\ _failed_tasks' = _failed_tasks]_vars

\* A cyclic submission was rejected by a runner that holds results and errors.
C6_Witness ==
    /\ RunEnded
    /\ Cyclic(tasks_to_run)
    /\ ~DuplicateNames(tasks_to_run)
    /\ outcome.exc = "CycleError"
    /\ task_results # <<>>
    /\ task_errors # <<>>
    /\ failed_tasks # <<>>

(***************************************************************************)
(* C7: when a wave is recorded every task of the wave has settled, none    *)
(* was left out, and each task's own outcome is what is recorded under its *)
(* name, whatever its siblings did: a failure in task_errors and           *)
(* failed_tasks, a value in task_results.                                  *)
(***************************************************************************)
C7_EverySiblingRecorded ==
    [][Len(recorded') = Len(recorded) + 1
       => /\ Len(ready_tasks) = Len(ready_names)
          /\ \A i \in DOMAIN ready_names :
                 /\ ready_tasks[i].call.name = ready_names[i]
                 /\ ready_tasks[i].done
                 /\ IF ready_tasks[i].result.exc
                    THEN /\ DictHas(task_errors', ready_names[i])
                         /\ DictGet(task_errors', ready_names[i]) = ready_tasks[i].result.err
                         /\ DictHas(_failed_tasks', ready_names[i])
                    ELSE /\ DictHas(task_results', ready_names[i])
                         /\ DictGet(task_results', ready_names[i]) = ready_tasks[i].result.val
                         /\ ~DictHas(task_errors', ready_names[i])
                         /\ ~DictHas(_failed_tasks', ready_names[i])]_vars

\* A wave of two tasks, the first of which failed and the second of which
\* succeeded, has been recorded.
C7_Witness ==
    /\ Len(recorded) = 1
    /\ Len(recorded[1]) = 2
    /\ recorded[1][1].result.exc
    /\ ~recorded[1][2].result.exc
    /\ DictHas(task_errors, recorded[1][1].name)
    /\ DictHas(task_results, recorded[1][2].name)

(***************************************************************************)
(* C8 as claimed: between calls, failed_tasks holds exactly the names of   *)
(* task_errors, and each specification in it is the one most recently      *)
(* passed to run under its name.                                           *)
(***************************************************************************)
C8_FailedTasksAreLatestSubmitted ==
    pc = "idle" =>
        /\ DictKeys(_failed_tasks) = DictKeys(task_errors)
        /\ Len(failed_tasks) = Len(task_errors)
        /\ \A i \in DOMAIN _failed_tasks :
               /\ DictHas(last_submitted, _failed_tasks[i].k)
               /\ failed_tasks[i] = DictGet(last_submitted, _failed_tasks[i].k)

(***************************************************************************)
(* C8 as amended: in every state, failed_tasks holds exactly the names of  *)
(* task_errors, and each specification in it is the one under which the    *)
(* latest outcome of its name was recorded: the one most recently passed   *)
(* to a run that got as far as recording that task.                        *)
(***************************************************************************)
C8_FailedTasksAreLatestRecorded ==
    /\ DictKeys(_failed_tasks) = DictKeys(task_errors)
    /\ Len(failed_tasks) = Len(task_errors)
    /\ \A i \in DOMAIN _failed_tasks :
           /\ TaskName(failed_tasks[i]) = _failed_tasks[i].k
           /\ DictHas(settled_spec, _failed_tasks[i].k)
           /\ failed_tasks[i] = DictGet(settled_spec, _failed_tasks[i].k)

\* A name that had failed under one specification has failed again under
\* another, and failed_tasks holds the later one.
C8_Witness ==
    /\ RunEnded
    /\ \E i \in DOMAIN _failed_tasks :
           /\ DictHas(prev.errors, _failed_tasks[i].k)
           /\ failed_tasks[i] \in SeqRange(tasks_to_run)
           /\ failed_tasks[i] \notin SeqRange(prev.tasks)
           /\ \E j \in DOMAIN prev.tasks : TaskName(prev.tasks[j]) = _failed_tasks[i].k

(***************************************************************************)
(* C9: the aggregate run returns is what setting each result's dotted path *)
(* gives when the results are taken in the order of their latest           *)
(* recording, a later one replacing what it collides with.                 *)
(***************************************************************************)
RefSetPath(tree, path, val) ==
    {e \in tree : ~IsPrefix(path, e.path) /\ ~IsPrefix(e.path, path)}
        \cup {[path |-> path, val |-> val]}

RECURSIVE RefAggregate(_, _, _, _)
RefAggregate(order, tm, results, tree) ==
    IF order = <<>> THEN tree
    ELSE LET n == Head(order)
             key == IF DictHas(tm, n) THEN DictGet(tm, n).res_key ELSE <<>>
         IN  RefAggregate(Tail(order), tm, results,
                          IF key = <<>> THEN tree
                          ELSE RefSetPath(tree, Split(key), DictGet(results, n)))

C9_AggregateInRecordingOrder ==
    (RunEnded /\ outcome.kind = "returned") =>
        outcome.tree = RefAggregate(rec_order, MapTasks(tasks_to_run, <<>>).task_map,
                                    task_results, {})

(***************************************************************************)
(* C10: when a submission of deterministic tasks has run to its return     *)
(* with every task succeeding, running the same list again without reset   *)
(* returns the same aggregate and leaves task_results and task_errors as   *)
(* they were, with no submitted name in task_errors.                       *)
(***************************************************************************)
RerunOfSuccessfulRun ==
    /\ RunEnded
    /\ run_count >= 2
    /\ tasks_to_run # <<>>
    /\ prev.tasks = tasks_to_run
    /\ prev.outcome.kind = "returned"
    /\ \A i \in DOMAIN tasks_to_run : Deterministic(tasks_to_run[i].func)
    /\ SubmittedNames(tasks_to_run) \cap DictKeys(prev.errors) = {}

C10_RerunIsIdempotent ==
    RerunOfSuccessfulRun =>
        /\ outcome = prev.outcome
        /\ task_results = prev.results
        /\ task_errors = prev.errors
        /\ SubmittedNames(tasks_to_run) \cap DictKeys(task_errors) = {}

\* Two tasks, one depending on the other, have run twice.
C10_Witness ==
    /\ RerunOfSuccessfulRun
    /\ Len(tasks_to_run) = 2
    /\ \E i \in DOMAIN tasks_to_run : tasks_to_run[i].deps # <<>>
    /\ outcome.tree # {}

(***************************************************************************)
(* The run of a submission on a runner just constructed, as a function:    *)
(* arun with the store empty and the executor accepting work.  FreshRun    *)
(* gives every end [results, errors, failed, outcome] the run can reach.   *)
(***************************************************************************)
EmptyStore == [results |-> <<>>, errors |-> <<>>, failed |-> <<>>]

RECURSIVE ResultVectors(_)
\* What asyncio.gather can return for the launched calls.
ResultVectors(calls) ==
    IF calls = <<>> THEN {<<>>}
    ELSE {<<r>> \o rest : r \in ExecuteTask(Head(calls), FALSE),
                          rest \in ResultVectors(Tail(calls))}

EndOfRun(store, out) ==
    [results |-> store.results, errors |-> store.errors, failed |-> store.failed,
     outcome |-> out]

RECURSIVE FreshLoop(_, _, _)
FreshLoop(t, tm, store) ==
    IF t.ready = <<>>
    THEN LET f == format_results(store.results, tm)
         IN  {EndOfRun(store, IF f.raised = "" THEN Returned(f.tree)
                              ELSE RaisedBy(f.raised))}
    ELSE LET c == CalculateReadyTasks(t.ready, tm, store.results)
         IN  IF c.raised # "" THEN {EndOfRun(store, RaisedBy(c.raised))}
             ELSE UNION {FreshLoop(Done([t EXCEPT !.ready = <<>>], tm, t.ready), tm,
                                   SetResults(store, t.ready, rv, tm)) :
                         rv \in ResultVectors(c.launched)}

FreshRun(tasks) ==
    LET m == MapTasksFunctionsAndDependencies(tasks)
    IN  IF m.raised # "" THEN {EndOfRun(EmptyStore, RaisedBy(m.raised))}
        ELSE IF HasCycle(m.task_map) THEN {EndOfRun(EmptyStore, RaisedBy("CycleError"))}
        ELSE FreshLoop(Prepare(m.task_map), m.task_map, EmptyStore)

\* reset has been called and run has not been called since.
JustReset == pc = "idle" /\ executor_shutdown /\ outcome = NoOutcome /\ prev = NoPrev

\* The first run call after a reset has ended.
FirstRunAfterResetEnded == RunEnded /\ executor_shutdown /\ prev = NoPrev

(***************************************************************************)
(* C11: after reset, task_results, task_errors and failed_tasks are empty, *)
(* and the first run on the runner after it ends with results, errors,     *)
(* failed tasks and an aggregate (or exception) that a run of the same     *)
(* submission on a runner just constructed can end with.                   *)
(***************************************************************************)
C11_ResetIsAFreshRunner ==
    /\ JustReset => Store = EmptyStore
    /\ FirstRunAfterResetEnded => EndOfRun(Store, outcome) \in FreshRun(tasks_to_run)

\* Some task of the submission lists a dependency that no submitted task is
\* named.
UnknownDependency(tasks) ==
    \E n \in SubmittedNames(tasks) : ~(ListedDeps(tasks, n) \subseteq SubmittedNames(tasks))

(***************************************************************************)
(* C12: a run call whose submission lists a dependency that is not the     *)
(* name of a submitted task raises without launching or invoking any task  *)
(* of the submission, and leaves task_results, task_errors and             *)
(* failed_tasks as they were.                                              *)
(***************************************************************************)
C12_UnknownDependencyRejected ==
    [][(/\ run_count' = run_count + 1
        /\ UnknownDependency(tasks_to_run'))
       => /\ pc' = "idle"
          /\ outcome'.kind = "raised"
          /\ invoked' = <<>>
          /\ ready_tasks' = <<>>
          /\ orphans' = orphans
          /\ task_results' = task_results
          /\ task_errors' = task_errors
          /\ _failed_tasks' = _failed_tasks]_vars

\* The specification submitted to the latest run call under the name.
SubmittedAs(name) ==
    CHOOSE t \in SeqRange(tasks_to_run) : TaskName(t) = name

\* The named arguments the claim gives a task: every listed dependency's
\* result under the dependency's name, and over them the task's own.
ExpectedKwarg(task, results, k) ==
    IF DictHas(task.kwargs, k) THEN DictGet(task.kwargs, k) ELSE DictGet(results, k)

(***************************************************************************)
(* C13: every invocation made by the latest run call was given the task's  *)
(* declared positional arguments, and named arguments whose keys are the   *)
(* listed dependencies and the task's own keys, each dependency key        *)
(* carrying that dependency's entry of task_results unless the task        *)
(* declares the key itself, in which case the declared value is passed.    *)
(***************************************************************************)
C13_InvocationArguments ==
    \A i \in DOMAIN invoked :
        ~invoked[i].orphan =>
            LET task == SubmittedAs(invoked[i].name)
            IN  /\ invoked[i].func = task.func
                /\ invoked[i].args = task.args
                /\ DictKeys(invoked[i].kwargs) =
                       SeqRange(task.deps) \cup DictKeys(task.kwargs)
                /\ Len(invoked[i].kwargs) = Cardinality(DictKeys(invoked[i].kwargs))
                /\ \A k \in DictKeys(invoked[i].kwargs) :
                       /\ DictHas(task.kwargs, k) \/ DictHas(task_results, k)
                       /\ DictGet(invoked[i].kwargs, k) =
                              ExpectedKwarg(task, task_results, k)

\* A task was invoked that declares a named argument under the name of one
\* of its dependencies, whose recorded result is another value.
C13_Witness ==
    \E i \in DOMAIN invoked :
        /\ ~invoked[i].orphan
        /\ \E k \in SeqRange(invoked[i].deps) :
               /\ DictHas(SubmittedAs(invoked[i].name).kwargs, k)
               /\ DictHas(task_results, k)
               /\ DictGet(task_results, k) # DictGet(invoked[i].kwargs, k)
               /\ DictGet(invoked[i].kwargs, k) =
                      DictGet(SubmittedAs(invoked[i].name).kwargs, k)

\* A wave is awaited and some task of it has not settled.
WaveUnsettled == pc = "gather" /\ \E i \in DOMAIN ready_tasks : ~ready_tasks[i].done

\* The calls of the awaited wave.
WaveCalls == [i \in DOMAIN ready_tasks |-> ready_tasks[i].call]

\* The invocations the latest run call has made.
RunInvocations == SelectSeq(invoked, LAMBDA e : ~e.orphan)

(***************************************************************************)
(* C14: while a task of the awaited wave is unsettled, no step changes     *)
(* task_results or task_errors, records a wave, launches or invokes a      *)
(* task, or ends the await; and a step that launches the next wave is      *)
(* taken with every task of the wave settled and leaves every outcome of   *)
(* the wave in the store, so that the calls of the next wave are built     *)
(* from a store the whole wave has been written to.                        *)
(***************************************************************************)
C14_StoreWrittenBetweenWaves ==
    [][/\ WaveUnsettled =>
              /\ task_results' = task_results
              /\ task_errors' = task_errors
              /\ recorded' = recorded
              /\ WaveCalls' = WaveCalls
              /\ RunInvocations' = RunInvocations
              /\ pc' = "gather"
       /\ (pc = "gather" /\ pc' = "gather" /\ Len(recorded') # Len(recorded)) =>
              /\ \A i \in DOMAIN ready_tasks : ready_tasks[i].done
              /\ \A i \in DOMAIN ready_names :
                     IF ready_tasks[i].result.exc
                     THEN DictHas(task_errors', ready_names[i])
                     ELSE /\ DictHas(task_results', ready_names[i])
                          /\ DictGet(task_results', ready_names[i]) =
                                 ready_tasks[i].result.val
              /\ \A i \in DOMAIN ready_tasks' :
                     /\ ~ready_tasks'[i].done
                     /\ \A d \in SeqRange(ready_tasks'[i].call.deps) :
                            /\ DictHas(task_results', d)
                            /\ DictGet(ready_tasks'[i].call.kwargs, d) =
                                   ExpectedKwarg(DictGet(task_map', ready_tasks'[i].call.name),
                                                 task_results', d)]_vars

\* In a second run on the runner, whose store holds entries, one task of a
\* wave of two has settled and its sibling has not.
C14_Witness ==
    /\ WaveUnsettled
    /\ Len(ready_tasks) = 2
    /\ \E i \in DOMAIN ready_tasks : ready_tasks[i].done
    /\ task_results # <<>>
    /\ task_errors # <<>>

\* The names that had a result when the latest run call began and are not
\* names of its submission.
Leftovers == DictKeys(prev.results) \ SubmittedNames(tasks_to_run)

(***************************************************************************)
(* C15: when task_results held, at the start of a run call, results of     *)
(* names that are not in the submission, and the submission is not empty   *)
(* and structurally valid and none of its tasks fails, the run records     *)
(* every submitted task and returns an aggregate instead of raising.       *)
(***************************************************************************)
C15_LeftoversDoNotBreakTheAggregate ==
    (/\ RunEnded
     /\ tasks_to_run # <<>>
     /\ Leftovers # {}
     /\ StructurallyValid(tasks_to_run)
     /\ FailedInRun = {})
        => /\ outcome.kind = "returned"
           /\ SubmittedNames(tasks_to_run) \subseteq RecordedInRun

====
